---- MODULE Spec2Model ----
(***************************************************************************)
(* Model of hound's configuration loader (src/config/config.go).           *)
(*                                                                         *)
(* Go strings and byte slices are TLA+ strings.  A Go pointer (and a JSON  *)
(* key that may be absent) is a sequence of length 0 or 1: <<>> is the nil *)
(* pointer / the absent key, <<v>> points at / carries v.  The config file *)
(* is kept as its parsed JSON document; JSON null and an absent key decode *)
(* alike for every field (encoding/json leaves the zero value), except for *)
(* a null entry of the "repos" object, which decodes to a nil *Repo.       *)
(* Paths follow the Unix flavour of path/filepath.                         *)
(***************************************************************************)
EXTENDS Integers, Sequences, FiniteSets, TLC

VARIABLES
  filename,   \* the path handed to LoadFromFile
  file,       \* what is at that path: [readable, fault, doc]
  cwd,        \* os.Getwd(): <<dir>>, or <<>> when it fails
  c,          \* the Config value
  err,        \* what LoadFromFile returned: "none" before the call
  out,        \* what ToJSONString returned last: <<>> before any call
  sm,         \* a stand-alone *SecretMessage: <<>> nil, <<bytes>> otherwise
  smCall      \* the last call on sm: [op, recv, arg, ret, res]

vars == <<filename, file, cwd, c, err, out, sm, smCall>>

---------------------------------------------------------------------------
(* Bounds of the model *)

MaxPathLen == 3
MaxRepos == 2
MaxSecretLen == 2

---------------------------------------------------------------------------
(* Program constants, config.go lines 11-23 *)

defaultMsBetweenPoll == 30000
defaultMaxConcurrentIndexers == 2
defaultPushEnabled == FALSE
defaultPollEnabled == TRUE
defaultTitle == "Hound"
defaultVcs == "git"
defaultBaseURL == "{url}/blob/master/{path}{anchor}"
defaultBaseURLAzureDevops == "{url}/?path=%2F{path}&version=GBmaster&line={anchor}"
defaultAnchor == "#L{line}"
defaultHealthCheckURI == "/healthz"
defaultAnchorAzureDevops == "&line={line}"

---------------------------------------------------------------------------
(* Strings *)

Ch(s, i) == SubSeq(s, i, i)

\* strings.Contains(s, sub)
Contains(s, sub) ==
  \E i \in 1..(Len(s) - Len(sub) + 1) : SubSeq(s, i, i + Len(sub) - 1) = sub

\* filepath.IsAbs on Unix: the path starts with a slash
IsAbs(path) == Len(path) > 0 /\ Ch(path, 1) = "/"

\* the backtracking of filepath.Clean on a ".." element: drop the last
\* element of out, never going below dotdot
RECURSIVE CleanBack(_, _, _)
CleanBack(o, w, dotdot) ==
  IF w > dotdot /\ Ch(o, w + 1) # "/"
    THEN CleanBack(o, w - 1, dotdot)
    ELSE SubSeq(o, 1, w)

\* the end (last index) of the path element that starts at r
RECURSIVE ElemEnd(_, _)
ElemEnd(path, r) ==
  IF r < Len(path) /\ Ch(path, r + 1) # "/" THEN ElemEnd(path, r + 1) ELSE r

\* the scanning loop of filepath.Clean; r is the 1-based read position
RECURSIVE CleanLoop(_, _, _, _)
CleanLoop(path, r, o, dotdot) ==
  LET n == Len(path)
      rooted == Ch(path, 1) = "/"
  IN IF r > n THEN o
     ELSE IF Ch(path, r) = "/" THEN CleanLoop(path, r + 1, o, dotdot)
     ELSE IF Ch(path, r) = "." /\ (r = n \/ Ch(path, r + 1) = "/")
       THEN CleanLoop(path, r + 1, o, dotdot)
     ELSE IF Ch(path, r) = "." /\ Ch(path, r + 1) = "."
             /\ (r + 1 = n \/ Ch(path, r + 2) = "/")
       THEN IF Len(o) > dotdot
              THEN CleanLoop(path, r + 2, CleanBack(o, Len(o) - 1, dotdot), dotdot)
            ELSE IF ~rooted
              THEN LET o2 == (IF Len(o) > 0 THEN o \o "/" ELSE o) \o ".."
                   IN CleanLoop(path, r + 2, o2, Len(o2))
            ELSE CleanLoop(path, r + 2, o, dotdot)
     ELSE LET sep == IF (rooted /\ Len(o) # 1) \/ (~rooted /\ Len(o) # 0)
                       THEN "/" ELSE ""
              e == ElemEnd(path, r)
          IN CleanLoop(path, e + 1, o \o sep \o SubSeq(path, r, e), dotdot)

\* filepath.Clean
Clean(path) ==
  IF path = "" THEN "."
  ELSE LET rooted == Ch(path, 1) = "/"
           o == IF rooted THEN CleanLoop(path, 2, "/", 1)
                          ELSE CleanLoop(path, 1, "", 0)
       IN IF o = "" THEN "." ELSE o

\* the index of the last slash of path, 0 when there is none
RECURSIVE LastSlash(_, _)
LastSlash(path, i) ==
  IF i >= 1 /\ Ch(path, i) # "/" THEN LastSlash(path, i - 1) ELSE i

\* filepath.Dir
Dir(path) == Clean(SubSeq(path, 1, LastSlash(path, Len(path))))

\* filepath.Join(a, b): empty leading elements are dropped, the rest is
\* joined with slashes and cleaned
Join(a, b) ==
  IF a # "" THEN Clean(a \o "/" \o b)
  ELSE IF b # "" THEN Clean(b)
  ELSE ""

\* filepath.Abs: [ok, path]; a relative path needs the working directory
Abs(path, wd) ==
  IF IsAbs(path) THEN [ok |-> TRUE, path |-> Clean(path)]
  ELSE IF wd = <<>> THEN [ok |-> FALSE, path |-> ""]
  ELSE [ok |-> TRUE, path |-> Join(wd[1], path)]

\* all strings over alphabet of length at most n
RECURSIVE StringsUpTo(_, _)
StringsUpTo(alphabet, n) ==
  IF n = 0 THEN {""}
  ELSE LET S == StringsUpTo(alphabet, n - 1)
       IN S \cup {s \o a : s \in S, a \in alphabet}

---------------------------------------------------------------------------
(* Data model, config.go lines 25-76 *)

\* the value of an optional JSON key, or the zero value the decoder leaves
Get(opt, zero) == IF opt = <<>> THEN zero ELSE opt[1]

\* Config{} as constructed: every field zero, the map nil
ZeroConfig ==
  [DbPath |-> "", Title |-> "", Repos |-> <<>>,
   MaxConcurrentIndexers |-> 0, HealthCheckURI |-> ""]

\* faulty variant: the default whatever the pointer holds
optionToBoolIgnoringValue(val, def) == def

\* optionToBool: the value behind the pointer, the default for nil
optionToBool(val, def) == IF val = <<>> THEN def ELSE val[1]

PollUpdatesEnabled(r) == optionToBool(r.EnablePollUpdates, defaultPollEnabled)

PushUpdatesEnabled(r) == optionToBool(r.EnablePushUpdates, defaultPushEnabled)

---------------------------------------------------------------------------
(* SecretMessage, config.go lines 73-102 *)

\* faulty variant: json.RawMessage's MarshalJSON: the stored bytes
MarshalJSONRaw(s) == IF s = <<>> THEN "null" ELSE s[1]

\* (*SecretMessage).MarshalJSON: the receiver is never read
MarshalJSON(s) == "{}"

\* (*SecretMessage).UnmarshalJSON(b): s is the receiver, b the slice
\* (<<>> is the nil slice).  The nil test is on b; the receiver is then
\* dereferenced, which panics when it is nil.
UnmarshalJSON(s, b) ==
  IF b = <<>> THEN [s |-> s, ret |-> "error"]
  ELSE IF s = <<>> THEN [s |-> s, ret |-> "panic"]
  ELSE [s |-> <<b[1]>>, ret |-> "nil"]

\* (*Repo).VcsConfig: the stored bytes, nil (<<>>) without a vcs-config
VcsConfig(r) ==
  IF r.VcsConfigMessage = <<>> THEN <<>> ELSE <<r.VcsConfigMessage[1]>>

---------------------------------------------------------------------------
(* Decoding the document, config.go line 157 and the json tags *)

\* json.Decoder on a "vcs-config" value: a fresh SecretMessage is
\* allocated and UnmarshalJSON is handed the raw bytes of the value
DecodeSecret(opt) ==
  IF opt = <<>> THEN <<>> ELSE UnmarshalJSON(<<"">>, <<opt[1]>>).s

DecodeURLPattern(opt) ==
  IF opt = <<>> THEN <<>>
  ELSE <<[BaseURL |-> Get(opt[1].baseUrl, ""), Anchor |-> Get(opt[1].anchor, "")]>>

\* one entry of "repos": null gives a nil *Repo
DecodeRepo(opt) ==
  IF opt = <<>> THEN <<>>
  ELSE LET d == opt[1]
       IN <<[URL |-> Get(d.url, ""),
             MsBetweenPolls |-> Get(d.ms, 0),
             Vcs |-> Get(d.vcs, ""),
             VcsConfigMessage |-> DecodeSecret(d.vcsConfig),
             URLPattern |-> DecodeURLPattern(d.urlPattern),
             ExcludeDotFiles |-> Get(d.excludeDotFiles, FALSE),
             EnablePollUpdates |-> d.enablePoll,
             EnablePushUpdates |-> d.enablePush]>>

\* json.Decoder.Decode(c): keys of the document overwrite, the rest stays
Decode(c0, doc) ==
  [DbPath |-> Get(doc.dbpath, c0.DbPath),
   Title |-> Get(doc.title, c0.Title),
   Repos |-> IF doc.repos = <<>> THEN c0.Repos
             ELSE <<[n \in DOMAIN doc.repos[1] |-> DecodeRepo(doc.repos[1][n])]>>,
   MaxConcurrentIndexers |-> Get(doc.maxConcurrentIndexers, c0.MaxConcurrentIndexers),
   HealthCheckURI |-> Get(doc.healthCheckUri, c0.HealthCheckURI)]

---------------------------------------------------------------------------
(* Defaults, config.go lines 104-147 *)

\* faulty variant: the Azure DevOps pair replaces a supplied url-pattern
initRepoAzureAlways(r) ==
  [r EXCEPT
     !.MsBetweenPolls = IF @ = 0 THEN defaultMsBetweenPoll ELSE @,
     !.Vcs = IF @ = "" THEN defaultVcs ELSE @,
     !.URLPattern =
        IF Contains(r.URL, "visualstudio.com")
          THEN <<[BaseURL |-> defaultBaseURLAzureDevops,
                  Anchor |-> defaultAnchorAzureDevops]>>
        ELSE IF @ = <<>>
          THEN <<[BaseURL |-> defaultBaseURL, Anchor |-> defaultAnchor]>>
        ELSE <<[BaseURL |-> IF @[1].BaseURL = "" THEN defaultBaseURL ELSE @[1].BaseURL,
                Anchor |-> IF @[1].Anchor = "" THEN defaultAnchor ELSE @[1].Anchor]>>]

\* faulty variant: no branch on the URL
initRepoGenericOnly(r) ==
  [r EXCEPT
     !.MsBetweenPolls = IF @ = 0 THEN defaultMsBetweenPoll ELSE @,
     !.Vcs = IF @ = "" THEN defaultVcs ELSE @,
     !.URLPattern =
        IF @ = <<>>
          THEN <<[BaseURL |-> defaultBaseURL, Anchor |-> defaultAnchor]>>
        ELSE <<[BaseURL |-> IF @[1].BaseURL = "" THEN defaultBaseURL ELSE @[1].BaseURL,
                Anchor |-> IF @[1].Anchor = "" THEN defaultAnchor ELSE @[1].Anchor]>>]

\* faulty variant: a negative poll interval counts as missing
initRepoPositiveOnly(r) ==
  [r EXCEPT
     !.MsBetweenPolls = IF @ <= 0 THEN defaultMsBetweenPoll ELSE @,
     !.Vcs = IF @ = "" THEN defaultVcs ELSE @,
     !.URLPattern =
        IF @ = <<>>
          THEN IF Contains(r.URL, "visualstudio.com")
                 THEN <<[BaseURL |-> defaultBaseURLAzureDevops,
                         Anchor |-> defaultAnchorAzureDevops]>>
                 ELSE <<[BaseURL |-> defaultBaseURL, Anchor |-> defaultAnchor]>>
        ELSE <<[BaseURL |-> IF @[1].BaseURL = "" THEN defaultBaseURL ELSE @[1].BaseURL,
                Anchor |-> IF @[1].Anchor = "" THEN defaultAnchor ELSE @[1].Anchor]>>]

\* faulty variant: a supplied url-pattern is left as it is
initRepoNoSubFields(r) ==
  [r EXCEPT
     !.MsBetweenPolls = IF @ = 0 THEN defaultMsBetweenPoll ELSE @,
     !.Vcs = IF @ = "" THEN defaultVcs ELSE @,
     !.URLPattern =
        IF @ = <<>>
          THEN IF Contains(r.URL, "visualstudio.com")
                 THEN <<[BaseURL |-> defaultBaseURLAzureDevops,
                         Anchor |-> defaultAnchorAzureDevops]>>
                 ELSE <<[BaseURL |-> defaultBaseURL, Anchor |-> defaultAnchor]>>
        ELSE @]

\* initRepo on the Repo a non-nil pointer points at
initRepo(r) ==
  [r EXCEPT
     !.MsBetweenPolls = IF @ = 0 THEN defaultMsBetweenPoll ELSE @,
     !.Vcs = IF @ = "" THEN defaultVcs ELSE @,
     !.URLPattern =
        IF @ = <<>>
          THEN IF Contains(r.URL, "visualstudio.com")
                 THEN <<[BaseURL |-> defaultBaseURLAzureDevops,
                         Anchor |-> defaultAnchorAzureDevops]>>
                 ELSE <<[BaseURL |-> defaultBaseURL, Anchor |-> defaultAnchor]>>
        ELSE <<[BaseURL |-> IF @[1].BaseURL = "" THEN defaultBaseURL ELSE @[1].BaseURL,
                Anchor |-> IF @[1].Anchor = "" THEN defaultAnchor ELSE @[1].Anchor]>>]

initConfig(cfg) ==
  [cfg EXCEPT
     !.MaxConcurrentIndexers = IF @ = 0 THEN defaultMaxConcurrentIndexers ELSE @,
     !.HealthCheckURI = IF @ = "" THEN defaultHealthCheckURI ELSE @]

---------------------------------------------------------------------------
(* LoadFromFile, config.go lines 149-181 *)

\* the names of the map, and those whose entry is a nil *Repo
RepoKeys(cfg) == IF cfg.Repos = <<>> THEN {} ELSE DOMAIN cfg.Repos[1]

NilKeys(cfg) == {n \in RepoKeys(cfg) : cfg.Repos[1][n] = <<>>}

\* lines 161-163
TitleStep(cfg) == IF cfg.Title = "" THEN [cfg EXCEPT !.Title = defaultTitle] ELSE cfg

\* faulty variant: the joined path is stored without filepath.Abs
DbPathStepNoAbs(cfg, fname, wd) ==
  IF ~IsAbs(cfg.DbPath)
    THEN [ok |-> TRUE, c |-> [cfg EXCEPT !.DbPath = Join(Dir(fname), cfg.DbPath)]]
    ELSE [ok |-> TRUE, c |-> cfg]

\* lines 165-172: [ok, c]
DbPathStep(cfg, fname, wd) ==
  IF ~IsAbs(cfg.DbPath)
    THEN LET a == Abs(Join(Dir(fname), cfg.DbPath), wd)
         IN IF a.ok THEN [ok |-> TRUE, c |-> [cfg EXCEPT !.DbPath = a.path]]
                    ELSE [ok |-> FALSE, c |-> cfg]
    ELSE [ok |-> TRUE, c |-> cfg]

\* lines 174-176 run over the entries named in done
ReposStep(cfg, done) ==
  IF cfg.Repos = <<>> THEN cfg
  ELSE [cfg EXCEPT !.Repos =
          <<[n \in DOMAIN cfg.Repos[1] |->
               IF n \in done THEN <<initRepo(cfg.Repos[1][n][1])>>
                             ELSE cfg.Repos[1][n]]>>]

\* faulty variant: initConfig runs before the dbpath is resolved
PostDecodeDefaultsFirst(c1, fname, wd) ==
  LET c2 == initConfig(TitleStep(c1))
      p == DbPathStep(c2, fname, wd)
  IN IF ~p.ok THEN {[c |-> c2, err |-> "path"]}
     ELSE IF NilKeys(p.c) # {}
       THEN {[c |-> ReposStep(p.c, done), err |-> "panic"] :
               done \in SUBSET (RepoKeys(p.c) \ NilKeys(p.c))}
     ELSE {[c |-> ReposStep(p.c, RepoKeys(p.c)), err |-> "nil"]}

\* lines 161-180, the steps after a successful decode: the set of
\* [c, err] the call can end in.  The map is ranged over in an unspecified
\* order, so a nil entry is met after any subset of the others.
PostDecode(c1, fname, wd) ==
  LET c2 == TitleStep(c1)
      p == DbPathStep(c2, fname, wd)
  IN IF ~p.ok THEN {[c |-> c2, err |-> "path"]}
     ELSE IF NilKeys(p.c) # {}
       THEN {[c |-> ReposStep(p.c, done), err |-> "panic"] :
               done \in SUBSET (RepoKeys(p.c) \ NilKeys(p.c))}
     ELSE {[c |-> initConfig(ReposStep(p.c, RepoKeys(p.c))), err |-> "nil"]}

\* lines 151-159: open and decode.  A syntax error is found before any
\* field is stored; a type mismatch (here: "title" is not a string) is
\* recorded, the other keys are still stored, and Decode returns it.
LoadOutcomes(c0, fname, f, wd) ==
  IF ~f.readable THEN {[c |-> c0, err |-> "io"]}
  ELSE IF f.fault = "syntax" THEN {[c |-> c0, err |-> "decode"]}
  ELSE IF f.fault = "type"
    THEN {[c |-> Decode(c0, [f.doc EXCEPT !.title = <<>>]), err |-> "decode"]}
  ELSE PostDecode(Decode(c0, f.doc), fname, wd)

LoadFromFile ==
  /\ err = "none"
  /\ \E o \in LoadOutcomes(c, filename, file, cwd) :
       /\ c' = o.c
       /\ err' = o.err
  /\ UNCHANGED <<filename, file, cwd, out, sm, smCall>>

---------------------------------------------------------------------------
(* ToJSONString, config.go lines 183-191, with encoding/json's rendering *)

\* the names a map can hold, in the byte order json.Marshal sorts keys by
NameOrder == <<"alpha", "beta", "gamma", "omega">>

\* encoding/json's string escaping (quote, backslash, and <, >, & as \u00XX)
RECURSIVE Escape(_, _)
Escape(s, i) ==
  IF i > Len(s) THEN ""
  ELSE LET ch == Ch(s, i)
           e == CASE ch = "\"" -> "\\\""
                  [] ch = "\\" -> "\\\\"
                  [] ch = "&" -> "\\u0026"
                  [] ch = "<" -> "\\u003c"
                  [] ch = ">" -> "\\u003e"
                  [] OTHER -> ch
       IN e \o Escape(s, i + 1)

JSONString(s) == "\"" \o Escape(s, 1) \o "\""

JSONBool(b) == IF b THEN "true" ELSE "false"

JSONOptBool(p) == IF p = <<>> THEN "null" ELSE JSONBool(p[1])

\* faulty variant: MarshalJSON is called for the nil pointer too
MarshalSecretNilToo(p) == MarshalJSON(p)

\* a *SecretMessage field: null for the nil pointer, MarshalJSON otherwise
MarshalSecret(p) == IF p = <<>> THEN "null" ELSE MarshalJSON(p)

MarshalURLPattern(p) ==
  IF p = <<>> THEN "null"
  ELSE "{\"base-url\":" \o JSONString(p[1].BaseURL)
       \o ",\"anchor\":" \o JSONString(p[1].Anchor) \o "}"

MarshalRepo(p) ==
  IF p = <<>> THEN "null"
  ELSE LET r == p[1]
       IN "{\"url\":" \o JSONString(r.URL)
          \o ",\"ms-between-poll\":" \o ToString(r.MsBetweenPolls)
          \o ",\"vcs\":" \o JSONString(r.Vcs)
          \o ",\"vcs-config\":" \o MarshalSecret(r.VcsConfigMessage)
          \o ",\"url-pattern\":" \o MarshalURLPattern(r.URLPattern)
          \o ",\"exclude-dot-files\":" \o JSONBool(r.ExcludeDotFiles)
          \o ",\"enable-poll-updates\":" \o JSONOptBool(r.EnablePollUpdates)
          \o ",\"enable-push-updates\":" \o JSONOptBool(r.EnablePushUpdates)
          \o "}"

RECURSIVE MarshalEntries(_, _, _)
MarshalEntries(m, keys, i) ==
  IF i > Len(keys) THEN ""
  ELSE (IF i > 1 THEN "," ELSE "")
       \o JSONString(keys[i]) \o ":" \o MarshalRepo(m[keys[i]])
       \o MarshalEntries(m, keys, i + 1)

\* json.Marshal(c.Repos)
MarshalRepos(repos) ==
  IF repos = <<>> THEN "null"
  ELSE LET m == repos[1]
           inMap(n) == n \in DOMAIN m
       IN "{" \o MarshalEntries(m, SelectSeq(NameOrder, inMap), 1) \o "}"

\* the caller asks for the projection once LoadFromFile has returned
ToJSONString ==
  /\ err \notin {"none", "panic"}
  /\ out' = <<MarshalRepos(c.Repos)>>
  /\ UNCHANGED <<filename, file, cwd, c, err, sm, smCall>>

---------------------------------------------------------------------------
(* Direct calls on a stand-alone SecretMessage *)

NoCall == [op |-> "none", recv |-> <<>>, arg |-> <<>>, ret |-> "none", res |-> <<>>]

\* the byte slices a caller hands to UnmarshalJSON: nil, or any short text
SecretBytes == StringsUpTo({"{", "}", "x"}, MaxSecretLen)

SecretArgs == {<<>>} \cup {<<b>> : b \in SecretBytes}

\* s.UnmarshalJSON(b); nothing runs after a panic
SecretUnmarshal ==
  /\ smCall.ret # "panic"
  /\ \E b \in SecretArgs :
       LET r == UnmarshalJSON(sm, b)
       IN /\ sm' = r.s
          /\ smCall' = [op |-> "UnmarshalJSON", recv |-> sm, arg |-> b,
                        ret |-> r.ret, res |-> <<>>]
  /\ UNCHANGED <<filename, file, cwd, c, err, out>>

\* s.MarshalJSON()
SecretMarshal ==
  /\ smCall.ret # "panic"
  /\ smCall' = [op |-> "MarshalJSON", recv |-> sm, arg |-> <<>>,
                ret |-> "nil", res |-> <<MarshalJSON(sm)>>]
  /\ UNCHANGED <<filename, file, cwd, c, err, out, sm>>

\* (&Repo{VcsConfigMessage: s}).VcsConfig()
SecretVcsConfig ==
  /\ smCall.ret # "panic"
  /\ smCall' = [op |-> "VcsConfig", recv |-> sm, arg |-> <<>>,
                ret |-> "nil", res |-> VcsConfig([VcsConfigMessage |-> sm])]
  /\ UNCHANGED <<filename, file, cwd, c, err, out, sm>>

---------------------------------------------------------------------------
(* The config files and environments the loader is run on *)

Opt(S) == {<<>>} \cup {<<x>> : x \in S}

PlainURL == "https://github.com/o/r.git"
AzureURL == "https://o.visualstudio.com/_git/r"
URLs == {PlainURL, AzureURL, "https://dev.azure.com/o/_git/r", ""}

Payloads == {"{\"x\":1}", "{\"password\":\"hunter2\"}", "{}", "30000"}

OwnBaseURL == "{url}/src/{path}{anchor}"
OwnAnchor == "#{line}"
Patterns ==
  {<<>>} \cup {<<[baseUrl |-> b, anchor |-> a]>> :
                 b \in {<<>>, <<OwnBaseURL>>}, a \in {<<>>, <<"">>, <<OwnAnchor>>}}

RepoDocs(urls, mss, vcss, secrets, patterns, excl, polls, pushes) ==
  [url : urls, ms : mss, vcs : vcss, vcsConfig : secrets, urlPattern : patterns,
   excludeDotFiles : excl, enablePoll : polls, enablePush : pushes]

\* one repository, every defaulted field against every other
NormalizerDocs ==
  RepoDocs(Opt(URLs), {<<>>, <<0>>, <<-1>>, <<5000>>, <<30000>>},
           {<<>>, <<"">>, <<"hg">>}, {<<>>}, Patterns, {<<>>},
           Opt(BOOLEAN), Opt(BOOLEAN))

\* one repository, every payload against what else is rendered
SecretDocs ==
  RepoDocs({<<PlainURL>>, <<AzureURL>>}, {<<>>, <<30000>>, <<7>>}, {<<>>},
           Opt(Payloads),
           {<<>>, <<[baseUrl |-> <<OwnBaseURL>>, anchor |-> <<>>]>>},
           Opt({TRUE}), Opt(BOOLEAN), {<<>>, <<TRUE>>})

\* the repositories that maps of several are built from
SampleDocs ==
  RepoDocs({<<PlainURL>>}, {<<>>}, {<<>>}, {<<>>, <<"{}">>}, {<<>>},
           {<<>>}, {<<>>}, {<<>>})
  \cup RepoDocs({<<AzureURL>>}, {<<5000>>}, {<<"hg">>}, {<<"{\"x\":1}">>},
                {<<>>, <<[baseUrl |-> <<OwnBaseURL>>, anchor |-> <<>>]>>},
                {<<TRUE>>}, {<<FALSE>>}, {<<TRUE>>})

BaseRepoDoc ==
  [url |-> <<PlainURL>>, ms |-> <<>>, vcs |-> <<>>, vcsConfig |-> <<>>,
   urlPattern |-> <<>>, excludeDotFiles |-> <<>>, enablePoll |-> <<>>,
   enablePush |-> <<>>]

Names == {NameOrder[i] : i \in 1..MaxRepos}

\* the "repos" objects of at most MaxRepos entries, null entries included
RepoMaps ==
  UNION {[D -> Opt(SampleDocs)] : D \in SUBSET Names}

OneRepo(d) == <<[n \in {NameOrder[1]} |-> <<d>>]>>

GoodFile(doc) == [readable |-> TRUE, fault |-> "none", doc |-> doc]

Doc(dbpath, title, repos, maxIdx, health) ==
  [dbpath |-> dbpath, title |-> title, repos |-> repos,
   maxConcurrentIndexers |-> maxIdx, healthCheckUri |-> health]

FileNames ==
  {"/a/b/config.json", "config.json", "conf/../c.json", "../c.json",
   "/etc//h.json", "./c.json", "/c.json"}

DbPaths == StringsUpTo({"/", ".", "d"}, MaxPathLen) \cup {"data", "/abs/data"}

Cwds == {<<>>, <<"/w">>, <<"/">>}

\* database paths against config file names and working directories
InitPaths ==
  /\ filename \in FileNames
  /\ cwd \in Cwds
  /\ \E p \in Opt(DbPaths) : file = GoodFile(Doc(p, <<>>, <<>>, <<>>, <<>>))

\* one repository document
InitOneRepo ==
  /\ filename = "/a/b/config.json"
  /\ cwd = <<"/w">>
  /\ \E d \in NormalizerDocs \cup SecretDocs :
       file = GoodFile(Doc(<<"data">>, <<>>, OneRepo(d), <<>>, <<>>))

\* the config-level keys against every way the load can fail
InitConfigLevel ==
  /\ filename \in {"/a/b/config.json", "config.json"}
  /\ cwd \in {<<>>, <<"/w">>}
  /\ \E rd \in {TRUE, FALSE}, ft \in {"none", "syntax", "type"},
        p \in {<<"data">>, <<"/abs/data">>},
        t \in {<<>>, <<"">>, <<"Code">>},
        m \in {<<>>, <<0>>, <<5>>, <<-1>>},
        h \in {<<>>, <<"/hc">>},
        rs \in {<<>>, <<[n \in {} |-> <<>>]>>, OneRepo(BaseRepoDoc),
                <<[n \in {NameOrder[1]} |-> <<>>]>>} :
       file = [readable |-> rd, fault |-> ft, doc |-> Doc(p, t, rs, m, h)]

\* maps of several repositories
InitMaps ==
  /\ filename = "config.json"
  /\ cwd \in {<<>>, <<"/w">>}
  /\ \E rs \in RepoMaps, ft \in {"none", "type"} :
       file = [readable |-> TRUE, fault |-> ft,
               doc |-> Doc(<<"/abs/data">>, <<>>, <<rs>>, <<>>, <<>>)]

Init ==
  /\ InitPaths \/ InitOneRepo \/ InitConfigLevel \/ InitMaps
  /\ c = ZeroConfig
  /\ err = "none"
  /\ out = <<>>
  /\ sm = <<>>
  /\ smCall = NoCall

Next == LoadFromFile \/ ToJSONString

Spec == Init /\ [][Next]_vars

\* a SecretMessage pointer as declared (nil) or as allocated (empty)
InitSecret ==
  /\ filename = "config.json"
  /\ cwd = <<"/w">>
  /\ file = GoodFile(Doc(<<>>, <<>>, <<>>, <<>>, <<>>))
  /\ c = ZeroConfig
  /\ err = "none"
  /\ out = <<>>
  /\ sm \in {<<>>, <<"">>}
  /\ smCall = NoCall

NextSecret == SecretUnmarshal \/ SecretMarshal \/ SecretVcsConfig

SpecSecret == InitSecret /\ [][NextSecret]_vars

---------------------------------------------------------------------------
(* What the properties speak about *)

\* the document of the config file, key by key
GivenRepos == IF file.doc.repos = <<>> THEN {} ELSE DOMAIN file.doc.repos[1]

GivenRepo(n) == file.doc.repos[1][n][1]

GivenDbPath == Get(file.doc.dbpath, "")

\* the entries of the loaded map
Repo(n) == c.Repos[1][n][1]

Loaded == err = "nil"

StartsWithSlash(p) == p # "" /\ SubSeq(p, 1, 1) = "/"

\* how often sub occurs in s
Count(s, sub) ==
  Cardinality({i \in 1..(Len(s) - Len(sub) + 1) : SubSeq(s, i, i + Len(sub) - 1) = sub})

\* the elements of a path, empty ones dropped
RECURSIVE Elems(_, _, _)
Elems(p, i, cur) ==
  IF i > Len(p) THEN (IF cur = "" THEN <<>> ELSE <<cur>>)
  ELSE IF SubSeq(p, i, i) = "/"
    THEN (IF cur = "" THEN <<>> ELSE <<cur>>) \o Elems(p, i + 1, "")
  ELSE Elems(p, i + 1, cur \o SubSeq(p, i, i))

\* walking the elements from the root: "." stays, ".." goes up
RECURSIVE Walk(_, _, _)
Walk(es, i, at) ==
  IF i > Len(es) THEN at
  ELSE IF es[i] = "." THEN Walk(es, i + 1, at)
  ELSE IF es[i] = ".."
    THEN Walk(es, i + 1, IF at = <<>> THEN at ELSE SubSeq(at, 1, Len(at) - 1))
  ELSE Walk(es, i + 1, Append(at, es[i]))

RECURSIVE Slashed(_, _)
Slashed(at, i) == IF i > Len(at) THEN "" ELSE "/" \o at[i] \o Slashed(at, i + 1)

\* the absolute form of {directory of fname}/{given}, by path elements
AbsoluteForm(fname, given, wd) ==
  LET from == IF StartsWithSlash(fname) THEN <<>> ELSE Elems(wd[1], 1, "")
      name == Elems(fname, 1, "")
      es == from \o SubSeq(name, 1, Len(name) - 1) \o Elems(given, 1, "")
      at == Walk(es, 1, <<>>)
  IN IF at = <<>> THEN "/" ELSE Slashed(at, 1)

---------------------------------------------------------------------------
(* C1 *)

\* the Config with the payload of repository n replaced by p
WithPayload(cfg, n, p) ==
  [cfg EXCEPT !.Repos[1][n][1].VcsConfigMessage = <<p>>]

HasPayload(cfg, n) ==
  /\ cfg.Repos[1][n] # <<>>
  /\ VcsConfig(cfg.Repos[1][n][1]) # <<>>

\* C1 as stated: the projection of a Config never contains the bytes of a
\* non-empty vcs-config payload one of its repositories carries.
C1_NeverContainsPayload ==
  out # <<>> =>
    \A n \in RepoKeys(c) :
      (HasPayload(c, n) /\ VcsConfig(Repo(n))[1] # "")
        => ~Contains(out[1], VcsConfig(Repo(n))[1])

\* C1 amended: the projection does not depend on the payload bytes.  Every
\* repository that carries a payload has it rendered as {}, replacing the
\* payload by any other leaves the projection identical, and the accessor
\* still returns the payload.
C1_PayloadIndependent ==
  out # <<>> =>
    \A n \in RepoKeys(c) :
      HasPayload(c, n) =>
        /\ Contains(out[1], "\"vcs-config\":{}")
        /\ \A p \in Payloads \cup SecretBytes :
             MarshalRepos(WithPayload(c, n, p).Repos) = out[1]
        /\ Loaded => VcsConfig(Repo(n)) = GivenRepo(n).vcsConfig

C1_Witness ==
  /\ Loaded
  /\ out # <<>>
  /\ \E n \in RepoKeys(c) :
       /\ VcsConfig(Repo(n)) = <<"{\"password\":\"hunter2\"}">>
       /\ ~Contains(out[1], "hunter2")

---------------------------------------------------------------------------
(* C2 *)

NoConfigLevelKey(s) ==
  /\ ~Contains(s, "\"dbpath\"")
  /\ ~Contains(s, "\"title\"")
  /\ ~Contains(s, "\"max-concurrent-indexers\"")
  /\ ~Contains(s, "\"health-check-uri\"")

OnlyReposMap(s) ==
  /\ NoConfigLevelKey(s)
  /\ c.Repos = <<>> => s = "null"
  /\ c.Repos # <<>> =>
       /\ SubSeq(s, 1, 1) = "{"
       /\ Count(s, "{\"url\":") = Cardinality(RepoKeys(c))
       /\ \A n \in RepoKeys(c) : Contains(s, "\"" \o n \o "\":{\"url\":")

\* C2 as stated: after a load the projection holds only the repos map, and
\* the vcs-config field of every repository in it is rendered as {},
\* declared in the input or not.
C2_EveryVcsConfigEmptyObject ==
  (Loaded /\ out # <<>>) =>
    /\ OnlyReposMap(out[1])
    /\ Count(out[1], "\"vcs-config\":{}") = Cardinality(RepoKeys(c))

\* C2 amended: after a load the projection holds only the repos map; the
\* vcs-config field is rendered as {} for exactly the repositories that
\* declared a vcs-config, and as null for those that declared none.
C2_VcsConfigRendering ==
  (Loaded /\ out # <<>>) =>
    /\ OnlyReposMap(out[1])
    /\ Count(out[1], "\"vcs-config\":{}")
         = Cardinality({n \in GivenRepos : GivenRepo(n).vcsConfig # <<>>})
    /\ Count(out[1], "\"vcs-config\":null")
         = Cardinality({n \in GivenRepos : GivenRepo(n).vcsConfig = <<>>})

C2_Witness ==
  /\ Loaded
  /\ out # <<>>
  /\ \E n, m \in GivenRepos :
       /\ GivenRepo(n).vcsConfig # <<>>
       /\ GivenRepo(m).vcsConfig = <<>>
  /\ Count(out[1], "\"vcs-config\":{}") = 1
  /\ Count(out[1], "\"vcs-config\":null") = 1

---------------------------------------------------------------------------
(* C3 *)

\* C3: a repository that supplied no url-pattern gets its pattern by the
\* URL alone: the Azure DevOps pair when the URL contains the marker
\* visualstudio.com, the generic pair for every other URL.
C3_PatternByURL ==
  Loaded =>
    \A n \in GivenRepos :
      GivenRepo(n).urlPattern = <<>> =>
        Repo(n).URLPattern =
          IF Contains(Get(GivenRepo(n).url, ""), "visualstudio.com")
            THEN <<[BaseURL |-> "{url}/?path=%2F{path}&version=GBmaster&line={anchor}",
                    Anchor |-> "&line={line}"]>>
            ELSE <<[BaseURL |-> "{url}/blob/master/{path}{anchor}",
                    Anchor |-> "#L{line}"]>>

C3_Witness ==
  /\ Loaded
  /\ \E n \in GivenRepos :
       /\ GivenRepo(n).urlPattern = <<>>
       /\ GivenRepo(n).url = <<AzureURL>>
       /\ Repo(n).URLPattern[1].Anchor = "&line={line}"

---------------------------------------------------------------------------
(* C4 *)

\* C4: a repository that supplied a url-pattern keeps every non-empty
\* sub-field as given and gets the generic default for every empty one,
\* whatever its URL, the Azure DevOps marker included.
C4_SuppliedPatternKept ==
  Loaded =>
    \A n \in GivenRepos :
      GivenRepo(n).urlPattern # <<>> =>
        LET given == GivenRepo(n).urlPattern[1]
        IN /\ Repo(n).URLPattern # <<>>
           /\ Repo(n).URLPattern[1].BaseURL =
                IF Get(given.baseUrl, "") = ""
                  THEN "{url}/blob/master/{path}{anchor}"
                  ELSE given.baseUrl[1]
           /\ Repo(n).URLPattern[1].Anchor =
                IF Get(given.anchor, "") = "" THEN "#L{line}" ELSE given.anchor[1]

C4_Witness ==
  /\ Loaded
  /\ \E n \in GivenRepos :
       /\ GivenRepo(n).url = <<AzureURL>>
       /\ GivenRepo(n).urlPattern = <<[baseUrl |-> <<OwnBaseURL>>, anchor |-> <<>>]>>
       /\ Repo(n).URLPattern = <<[BaseURL |-> OwnBaseURL, Anchor |-> "#L{line}"]>>

---------------------------------------------------------------------------
(* C5 *)

\* C5: PollUpdatesEnabled is true for an absent flag and the supplied
\* boolean otherwise, PushUpdatesEnabled is false for an absent flag and
\* the supplied boolean otherwise; the load leaves both stored flags as
\* decoded, so the accessors answer alike before and after normalization.
C5_TriStateFlags ==
  Loaded =>
    \A n \in GivenRepos :
      LET given == GivenRepo(n)
          before == DecodeRepo(<<given>>)[1]
      IN /\ Repo(n).EnablePollUpdates = given.enablePoll
         /\ Repo(n).EnablePushUpdates = given.enablePush
         /\ PollUpdatesEnabled(Repo(n)) =
              (IF given.enablePoll = <<>> THEN TRUE ELSE given.enablePoll[1])
         /\ PushUpdatesEnabled(Repo(n)) =
              (IF given.enablePush = <<>> THEN FALSE ELSE given.enablePush[1])
         /\ PollUpdatesEnabled(before) = PollUpdatesEnabled(Repo(n))
         /\ PushUpdatesEnabled(before) = PushUpdatesEnabled(Repo(n))

C5_Witness ==
  /\ Loaded
  /\ \E n \in GivenRepos :
       /\ GivenRepo(n).enablePoll = <<FALSE>>
       /\ GivenRepo(n).enablePush = <<>>
       /\ ~PollUpdatesEnabled(Repo(n))
       /\ ~PushUpdatesEnabled(Repo(n))
       /\ Repo(n).EnablePushUpdates = <<>>

---------------------------------------------------------------------------
(* C6 *)

\* C6: after a successful load the database path is absolute: a dbpath
\* given absolute is kept unchanged, any other becomes the absolute form
\* of {directory of the config file}/{dbpath}.
C6_DbPathAbsolute ==
  Loaded =>
    /\ StartsWithSlash(c.DbPath)
    /\ StartsWithSlash(GivenDbPath) => c.DbPath = GivenDbPath
    /\ ~StartsWithSlash(GivenDbPath) =>
         c.DbPath = AbsoluteForm(filename, GivenDbPath, cwd)

C6_Witness ==
  /\ Loaded
  /\ filename = "/a/b/config.json"
  /\ file.doc.dbpath = <<"data">>
  /\ c.DbPath = "/a/b/data"

---------------------------------------------------------------------------
(* C7 *)

\* C7: after LoadFromFile returns nil every entry of the repository map
\* has a non-zero poll interval, a non-empty vcs kind and a non-nil
\* url-pattern with non-empty base-URL and anchor.
C7_Normalized ==
  Loaded =>
    \A n \in RepoKeys(c) :
      /\ c.Repos[1][n] # <<>>
      /\ Repo(n).MsBetweenPolls # 0
      /\ Repo(n).Vcs # ""
      /\ Repo(n).URLPattern # <<>>
      /\ Repo(n).URLPattern[1].BaseURL # ""
      /\ Repo(n).URLPattern[1].Anchor # ""

C7_Witness ==
  /\ Loaded
  /\ \E n \in GivenRepos :
       /\ GivenRepo(n).ms = <<0>>
       /\ GivenRepo(n).vcs = <<"">>
       /\ GivenRepo(n).urlPattern = <<[baseUrl |-> <<>>, anchor |-> <<"">>]>>
       /\ Repo(n).URLPattern[1].Anchor # ""

---------------------------------------------------------------------------
(* C8 *)

\* C8 as stated: UnmarshalJSON on a nil receiver returns an error value
\* (it does not crash), and on a valid receiver stores the given bytes.
C8_NilReceiverReturnsError ==
  smCall.op = "UnmarshalJSON" =>
    /\ smCall.recv = <<>> => smCall.ret = "error"
    /\ (smCall.recv # <<>> /\ smCall.arg # <<>>) =>
         (smCall.ret = "nil" /\ sm = smCall.arg)

---------------------------------------------------------------------------
(* C9 *)

\* C9: the poll interval becomes 30000 exactly when it decoded as zero
\* and the vcs kind becomes "git" exactly when it decoded as empty; any
\* other supplied value, a negative interval included, is kept.
C9_PollAndVcsDefaults ==
  Loaded =>
    \A n \in GivenRepos :
      /\ Repo(n).MsBetweenPolls =
           IF Get(GivenRepo(n).ms, 0) = 0 THEN 30000 ELSE GivenRepo(n).ms[1]
      /\ Repo(n).Vcs =
           IF Get(GivenRepo(n).vcs, "") = "" THEN "git" ELSE GivenRepo(n).vcs[1]

C9_Witness ==
  /\ Loaded
  /\ \E n \in GivenRepos :
       /\ GivenRepo(n).ms = <<-1>>
       /\ GivenRepo(n).vcs = <<"hg">>
       /\ Repo(n).MsBetweenPolls = -1
       /\ Repo(n).Vcs = "hg"

---------------------------------------------------------------------------
(* C10 *)

\* the Config right after the decode, no default applied
Decoded == Decode(ZeroConfig, file.doc)

\* dbpath resolution has to ask for the working directory and cannot
NoWorkingDir ==
  /\ ~StartsWithSlash(GivenDbPath)
  /\ ~StartsWithSlash(filename)
  /\ cwd = <<>>

\* C10: the steps run in the order open, decode, title, dbpath,
\* repositories, config-level defaults, and the first failure is returned
\* with no later step run: no default after an open or decode failure; the
\* title default but nothing else after a path failure; nil only after
\* every step.
C10_StepOrder ==
  err \notin {"none", "panic"} =>
    /\ ~file.readable => (err = "io" /\ c = ZeroConfig)
    /\ (file.readable /\ file.fault # "none") =>
         /\ err = "decode"
         /\ c.Title = (IF file.fault = "type" THEN "" ELSE ZeroConfig.Title)
         /\ c.DbPath \in {"", Decoded.DbPath}
         /\ c.Repos \in {<<>>, Decoded.Repos}
         /\ c.MaxConcurrentIndexers \in {0, Decoded.MaxConcurrentIndexers}
         /\ c.HealthCheckURI \in {"", Decoded.HealthCheckURI}
    /\ (file.readable /\ file.fault = "none" /\ NoWorkingDir) =>
         /\ err = "path"
         /\ c.Title = (IF Decoded.Title = "" THEN "Hound" ELSE Decoded.Title)
         /\ c.DbPath = Decoded.DbPath
         /\ c.Repos = Decoded.Repos
         /\ c.MaxConcurrentIndexers = Decoded.MaxConcurrentIndexers
         /\ c.HealthCheckURI = Decoded.HealthCheckURI
    /\ (file.readable /\ file.fault = "none" /\ ~NoWorkingDir) =>
         /\ err = "nil"
         /\ c.Title # ""
         /\ StartsWithSlash(c.DbPath)
         /\ \A n \in RepoKeys(c) : Repo(n).MsBetweenPolls # 0 /\ Repo(n).Vcs # ""
         /\ c.MaxConcurrentIndexers # 0
         /\ c.HealthCheckURI # ""

C10_Witness ==
  /\ err = "path"
  /\ file.doc.title = <<>>
  /\ c.Title = "Hound"
  /\ c.MaxConcurrentIndexers = 0
  /\ c.HealthCheckURI = ""
  /\ \E n \in RepoKeys(c) : c.Repos[1][n] # <<>> /\ Repo(n).MsBetweenPolls = 0

====
